---- MODULE Spec2Model ----
(***************************************************************************)
(* Birks'-law quenching calculator (src/birks-calculator/physics.py).      *)
(*                                                                         *)
(* Floats are modelled as fixed-point integers extended with the IEEE      *)
(* special values NaN, +inf and -inf:                                      *)
(*   - energies are integers in energy units; EqTol units make up the      *)
(*     absolute tolerance 1e-9 of solve_kb;                                *)
(*   - kB is an integer in units of 1/KbScale (0.5 is KbDefaultMax, 2.0 is *)
(*     KbWiden);                                                           *)
(*   - stopping power is an integer scaled by DedxScale, the integrand an  *)
(*     integer scaled by FScale, the quenching factor one scaled by        *)
(*     QScale.                                                             *)
(* Division rounds down, which like IEEE rounding is monotone.             *)
(***************************************************************************)
EXTENDS Integers, Sequences, FiniteSets

VARIABLES
    table,       \* the caller's input rows, <<energy, dedx>> each (df)
    energy,      \* self.energy: stored sample energies
    dedx,        \* self.dedx: stored sample stopping powers
    min_energy,  \* self.min_energy
    max_energy,  \* self.max_energy
    pc,          \* position of the current call
    op,          \* the operation called
    args,        \* its arguments
    loc,         \* solve_kb's locals: kb_max, f_min, f_max, brentq's bracket
    cnt,         \* per call: quadratures run, objective evaluations, widenings, brentq calls
    result,      \* the value returned
    err,         \* the error raised, "none" if none
    content,          \* the uploaded text, one element per line
    upc,              \* position of the upload path
    data_start_idx,   \* parse_srim_text: index of the first line of the data section
    data_end_idx,     \* parse_srim_text: index just past the data section
    df,               \* the parsed table
    uerr,             \* the error the upload path stopped on, "none" if none
    data_store,       \* st.session_state.data_store
    labels_store,     \* st.session_state.labels_store
    selected_labels,  \* the value of the multiselect
    plotted           \* the <<dataset, label>> pairs drawn by plot_gen

bvars == <<table, energy, dedx, min_energy, max_energy, pc, op, args, loc, cnt, result, err>>
uvars == <<content, upc, data_start_idx, data_end_idx, df, uerr>>
gvars == <<data_store, labels_store, selected_labels, plotted>>

vars == <<bvars, uvars, gvars>>

curve == <<energy, dedx, min_energy, max_energy>>

----------------------------------------------------------------------------
(* Bounds and scales *)

MaxRows == 2          \* rows of an input table
NQuad == 4            \* nodes of the quadrature rule

KbScale == 10         \* kB units per 1.0 mm/MeV
DedxScale == 10       \* fixed-point scale of a stopping-power value
FScale == 1000        \* fixed-point scale of an integrand value
QScale == 1000        \* fixed-point scale of a quenching factor

KbDefaultMax == 5     \* kb_max = 0.5
KbWiden == 20         \* kb_max = 2.0
EqTol == 2            \* 1e-9, in energy units
MaxIter == 100        \* maxiter = 100
EpsAbs == 2000        \* epsabs = 1e-6, in energy units
EpsRelInv == 1000000  \* 1 / epsrel, epsrel = 1e-6

XDen == 2 * NQuad     \* abscissae are in units of 1/XDen energy unit

----------------------------------------------------------------------------
(* Extended values *)

Fin(n) == [cls |-> "fin", val |-> n]
NaN == [cls |-> "nan", val |-> 0]
PInf == [cls |-> "pinf", val |-> 0]
NInf == [cls |-> "ninf", val |-> 0]

IsFin(v) == v.cls = "fin"
IsNaN(v) == v.cls = "nan"

\* v > 0 as a float comparison: false for NaN
GtZero(v) == \/ v.cls = "pinf"
             \/ v.cls = "fin" /\ v.val > 0

\* a * b > 0 as a float comparison
ProdGtZero(a, b) == /\ IsFin(a) /\ IsFin(b)
                    /\ a.val * b.val > 0

Abs(n) == IF n < 0 THEN 0 - n ELSE n

----------------------------------------------------------------------------
(* Inputs *)

Rows == {<<0, 10>>, <<200, 10>>, <<200, 0>>, <<400, 0>>}

Tables == UNION {[1..n -> Rows] : n \in 1..MaxRows}

Energies == {-200, 0, 200, 400, 600}

KbInputs == {-1, 0, 1, 3, 5}

----------------------------------------------------------------------------
(* Construction: BirksCalculator.__init__ *)

Injections(n) == {p \in [1..n -> 1..n] : \A i, j \in 1..n : i # j => p[i] # p[j]}

IsSorted(t) == \A i \in 1..(Len(t) - 1) : t[i][1] <= t[i + 1][1]

\* df.sort_values('Energy_MeV'): the rows in ascending energy order; the
\* default sort is not stable, so rows of equal energy come in either order
sort_values(t) ==
    {s \in {[i \in 1..Len(t) |-> t[p[i]]] : p \in Injections(Len(t))} : IsSorted(s)}

\* mutant: the origin row is prepended to every table
with_origin_always(s) == <<(<<0, 0>>)>> \o s

\* the origin row is prepended when the smallest energy is strictly positive
with_origin(s) == IF s[1][1] > 0 THEN <<(<<0, 0>>)>> \o s ELSE s

Column(s, c) == [i \in 1..Len(s) |-> s[i][c]]

\* mutant: the caller's table is sorted in place
caller_table_sorted_in_place(t, s) == s

\* the caller's table t after construction stored the sorted rows s:
\* sort_values and reset_index return new frames, t is not touched
caller_table_after(t, s) == t

----------------------------------------------------------------------------
(* Interpolation: interp1d(kind='linear', fill_value='extrapolate') *)

Min2(a, b) == IF a < b THEN a ELSE b
Max2(a, b) == IF a > b THEN a ELSE b

\* searchsorted(self.x, x_new): the number of samples strictly below x_new
searchsorted(x2) == Cardinality({j \in 1..Len(energy) : energy[j] * XDen < x2})

\* the index clipped into [1, len - 1]; with one sample the upper limit 0 wins
clip_index(x2) ==
    IF Len(energy) = 1 THEN 0
    ELSE Max2(1, Min2(searchsorted(x2), Len(energy) - 1))

\* 1-based positions of the two samples used; Python's index -1 is the last one
hi_pos(x2) == clip_index(x2) + 1
lo_pos(x2) == IF clip_index(x2) = 0 THEN Len(energy) ELSE clip_index(x2)

\* y_lo + slope * (x_new - x_lo), slope = (y_hi - y_lo) / (x_hi - x_lo), on
\* the samples at positions lo and hi; a zero-width interval gives the slope
\* 0/0 = NaN or d/0 = +-inf
interp_linear(lo, hi, x2) ==
    LET dx == (energy[hi] - energy[lo]) * XDen
        dy == dedx[hi] - dedx[lo]
        t  == x2 - energy[lo] * XDen
    IN  IF dx # 0 THEN Fin(dedx[lo] * DedxScale + ((dy * t * DedxScale) \div dx))
        ELSE IF dy = 0 \/ t = 0 THEN NaN
        ELSE IF (dy > 0) = (t > 0) THEN PInf
        ELSE NInf

\* self.dedx_interp(x_new)
dedx_interp(x2) == interp_linear(lo_pos(x2), hi_pos(x2), x2)

\* get_dedx(energy_mev)
get_dedx(e) == dedx_interp(e * XDen)

----------------------------------------------------------------------------
(* Forward calculation *)

\* 1 / (1 + kb * d) for a stopping power d and kb >= 0, 0 where the
\* denominator is <= 0
birks_term(d, kb) ==
    IF d.cls = "nan" THEN NaN
    ELSE IF d.cls \in {"pinf", "ninf"} THEN (IF kb = 0 THEN NaN ELSE Fin(0))
    ELSE LET denom == KbScale * DedxScale + kb * d.val
         IN  IF denom <= 0 THEN Fin(0)
             ELSE Fin((FScale * KbScale * DedxScale) \div denom)

\* integrand(E): dedx = self.get_dedx(E), then the term above
integrand(x2, kb) == birks_term(dedx_interp(x2), kb)

\* abscissa of node i (0-based) of the rule on [0, e], in 1/XDen units
node(e, i) == (2 * i + 1) * e

RECURSIVE sum_nodes(_, _, _)
sum_nodes(e, kb, i) ==
    IF i = NQuad THEN 0 ELSE integrand(node(e, i), kb).val + sum_nodes(e, kb, i + 1)

\* quad(integrand, 0, e): a rule with NQuad interior nodes and equal positive
\* weights
quad(e, kb) ==
    IF \E i \in 0..(NQuad - 1) : IsNaN(integrand(node(e, i), kb)) THEN NaN
    ELSE Fin((e * sum_nodes(e, kb, 0)) \div (NQuad * FScale))

\* the width e times the integrand value f
times_width(e, f) == IF IsNaN(f) THEN NaN ELSE Fin((e * f.val) \div FScale)

\* the one-node estimate of the same integral, the rule's coarser companion
quad_coarse(e, kb) == times_width(e, integrand(NQuad * e, kb))

\* a call's outcome: the error raised or the value returned, with the numbers
\* of quadratures run and of quadratures that did not converge
Return(v, q) == [err |-> "none", val |-> v, quads |-> q, unconv |-> 0]
Raise(e, q) == [err |-> e, val |-> NaN, quads |-> q, unconv |-> 0]

\* quad's verdict on its estimate q, c being the coarser one: their difference
\* is within max(epsabs, epsrel * |q|); an estimate that is not a number meets
\* no tolerance
quad_converged(q, c) ==
    /\ IsFin(q)
    /\ IsFin(c)
    /\ Abs(q.val - c.val) <= Max2(EpsAbs, Abs(q.val) \div EpsRelInv)

\* what the try block around quad makes of the estimates: quad reports a
\* quadrature that did not converge as a warning and raises nothing, so the
\* estimate is returned either way
quad_outcome(q, c) ==
    [Return(q, 1) EXCEPT !.unconv = IF quad_converged(q, c) THEN 0 ELSE 1]

\* visible_energy, error = quad(integrand, 0.0, initial_energy_mev, ...)
integrate(e, kb) == quad_outcome(quad(e, kb), quad_coarse(e, kb))

\* mutant: the kB check comes before the energy check
calculate_visible_energy_kb_first(e, kb) ==
    IF kb < 0 THEN Raise("InvalidArgument", 0)
    ELSE IF e <= 0 THEN Return(Fin(0), 0)
    ELSE Return(quad(e, kb), 1)

\* mutant: the kB check is missing
calculate_visible_energy_no_kb_check(e, kb) ==
    IF e <= 0 THEN Return(Fin(0), 0)
    ELSE Return(quad(e, kb), 1)

\* calculate_visible_energy(initial_energy_mev, kb_mm_mev)
calculate_visible_energy(e, kb) ==
    IF e <= 0 THEN Return(Fin(0), 0)
    ELSE IF kb < 0 THEN Raise("InvalidArgument", 0)
    ELSE integrate(e, kb)

\* visible_energy / initial_energy_mev
ratio(v, e) == IF IsFin(v) THEN Fin((v.val * QScale) \div e) ELSE v

\* the outcome r of calculate_visible_energy, its value divided by e
over_initial(r, e) ==
    IF r.err # "none" THEN r ELSE [r EXCEPT !.val = ratio(r.val, e)]

\* the outcome r of calculate_visible_energy, its value less obs
less_observed(r, obs) ==
    IF r.err # "none" THEN r
    ELSE [r EXCEPT !.val = IF IsFin(r.val) THEN Fin(r.val.val - obs) ELSE r.val]

\* calculate_quenching_factor(initial_energy_mev, kb_mm_mev)
calculate_quenching_factor(e, kb) ==
    IF e <= 0 THEN Return(Fin(0), 0)
    ELSE over_initial(calculate_visible_energy(e, kb), e)

\* objective(kb) = calculate_visible_energy(initial_energy_mev, kb) - observed_energy_mev
objective(e, obs, kb) == less_observed(calculate_visible_energy(e, kb), obs)

----------------------------------------------------------------------------
(* State machine *)

NoResult == [cls |-> "none", val |-> 0]
NoArgs == [e |-> 0, kb |-> 0, obs |-> 0, kb_min |-> 0, kb_max |-> 0]
NoLoc == [kb_max |-> 0, f_min |-> NaN, f_max |-> NaN,
          a |-> 0, b |-> 0, fa |-> NaN, fb |-> NaN, iter |-> 0]
ZeroCnt == [quads |-> 0, unconv |-> 0, objs |-> 0, widens |-> 0, brents |-> 0]

\* kB values of the round trip: the grid points of [0, 0.5)
RoundTripKbs == 0..(KbDefaultMax - 1)

SolveEnergies == {0, 1, 200, 400, 600}
KbMins == {0, 3}
KbMaxs == {KbDefaultMax, 30}

\* observed energies: fixed values, values around e, and visible energies
\* computed by the forward calculation
ObsInputs(e) ==
    {0, 1, e - EqTol, e - 1, e, e + 1}
    \cup {calculate_visible_energy(e, k).val.val : k \in RoundTripKbs \cup {KbScale}}

\* the upload path and the dashboard are not running
NoDf == [cols |-> {}, rows |-> <<>>]

UploadOff ==
    /\ content = <<>>
    /\ upc = "off"
    /\ data_start_idx = 0
    /\ data_end_idx = 0
    /\ df = NoDf
    /\ uerr = "none"

GcrOff ==
    /\ data_store = <<>>
    /\ labels_store = <<>>
    /\ selected_labels = <<>>
    /\ plotted = <<>>

\* no calculator is under test
BirksOff ==
    /\ table = <<>>
    /\ energy = <<>>
    /\ dedx = <<>>
    /\ min_energy = 0
    /\ max_energy = 0
    /\ pc = "off"
    /\ op = "none"
    /\ args = NoArgs
    /\ loc = NoLoc
    /\ cnt = ZeroCnt
    /\ result = NoResult
    /\ err = "none"

Init ==
    /\ table \in Tables
    /\ energy = <<>>
    /\ dedx = <<>>
    /\ min_energy = 0
    /\ max_energy = 0
    /\ pc = "new"
    /\ op = "none"
    /\ args = NoArgs
    /\ loc = NoLoc
    /\ cnt = ZeroCnt
    /\ result = NoResult
    /\ err = "none"
    /\ UploadOff
    /\ GcrOff

\* BirksCalculator(df)
Construct ==
    /\ pc = "new"
    /\ \E s \in sort_values(table) :
          LET c == with_origin(s)
          IN  /\ energy' = Column(c, 1)
              /\ dedx' = Column(c, 2)
              /\ min_energy' = c[1][1]
              /\ max_energy' = c[Len(c)][1]
              /\ table' = caller_table_after(table, s)
    /\ pc' = "idle"
    /\ UNCHANGED <<uvars, gvars, op, args, loc, cnt, result, err>>

\* the end of a call that returns or raises r
Finish(r) ==
    /\ pc' = "done"
    /\ err' = r.err
    /\ result' = IF r.err = "none" THEN r.val ELSE NoResult

\* calculator.get_dedx(e)
CallGetDedx ==
    /\ pc = "idle"
    /\ \E e \in Energies :
          /\ op' = "get_dedx"
          /\ args' = [NoArgs EXCEPT !.e = e]
          /\ Finish(Return(get_dedx(e), 0))
    /\ UNCHANGED <<uvars, gvars, table, curve, loc, cnt>>

\* (self.min_energy, self.max_energy)
get_energy_range == <<min_energy, max_energy>>

\* calculator.get_energy_range()
CallEnergyRange ==
    /\ pc = "idle"
    /\ op' = "get_energy_range"
    /\ pc' = "done"
    /\ result' = [cls |-> "range", val |-> 0, range |-> get_energy_range]
    /\ UNCHANGED <<uvars, gvars, table, curve, args, loc, cnt, err>>

\* the call is over and the caller goes on to its next call
ReturnToCaller ==
    /\ pc = "done"
    /\ pc' = "idle"
    /\ op' = "none"
    /\ args' = NoArgs
    /\ loc' = NoLoc
    /\ cnt' = ZeroCnt
    /\ result' = NoResult
    /\ err' = "none"
    /\ UNCHANGED <<uvars, gvars, table, curve>>

\* calculator.calculate_visible_energy(e, kb)
CallVisibleEnergy ==
    /\ pc = "idle"
    /\ \E e \in Energies, kb \in KbInputs :
          LET r == calculate_visible_energy(e, kb)
          IN  /\ op' = "visible_energy"
              /\ args' = [NoArgs EXCEPT !.e = e, !.kb = kb]
              /\ cnt' = [cnt EXCEPT !.quads = r.quads, !.unconv = r.unconv]
              /\ Finish(r)
    /\ UNCHANGED <<uvars, gvars, table, curve, loc>>

\* calculator.calculate_quenching_factor(e, kb)
CallQuenchingFactor ==
    /\ pc = "idle"
    /\ \E e \in Energies, kb \in KbInputs :
          LET r == calculate_quenching_factor(e, kb)
          IN  /\ op' = "quenching_factor"
              /\ args' = [NoArgs EXCEPT !.e = e, !.kb = kb]
              /\ cnt' = [cnt EXCEPT !.quads = r.quads, !.unconv = r.unconv]
              /\ Finish(r)
    /\ UNCHANGED <<uvars, gvars, table, curve, loc>>

\* calculator.solve_kb(e, obs, kb_min, kb_max) is entered
CallSolveKb ==
    /\ pc = "idle"
    /\ \E e \in SolveEnergies, kmin \in KbMins, kmax \in KbMaxs :
          \E obs \in ObsInputs(e) :
             /\ args' = [NoArgs EXCEPT !.e = e, !.obs = obs,
                                       !.kb_min = kmin, !.kb_max = kmax]
             /\ loc' = [NoLoc EXCEPT !.kb_max = kmax]
    /\ op' = "solve_kb"
    /\ pc' = "s_pre"
    /\ UNCHANGED <<uvars, gvars, table, curve, cnt, result, err>>

\* mutant: observed > initial is not rejected
solve_pre_no_exceed_check(e, obs) ==
    IF e <= 0 THEN "raise"
    ELSE IF obs <= 0 THEN "raise"
    ELSE IF Abs(obs - e) < EqTol THEN "zero"
    ELSE "search"

\* mutant: the special case is missing
solve_pre_no_special_case(e, obs) ==
    IF e <= 0 THEN "raise"
    ELSE IF obs <= 0 THEN "raise"
    ELSE IF obs > e THEN "raise"
    ELSE "search"

\* the head of solve_kb: the three argument checks, then the special case
\* abs(observed - initial) < 1e-9
solve_pre(e, obs) ==
    IF e <= 0 THEN "raise"
    ELSE IF obs <= 0 THEN "raise"
    ELSE IF obs > e THEN "raise"
    ELSE IF Abs(obs - e) < EqTol THEN "zero"
    ELSE "search"

SolvePre ==
    /\ pc = "s_pre"
    /\ CASE solve_pre(args.e, args.obs) = "raise" -> Finish(Raise("InvalidArgument", 0))
         [] solve_pre(args.e, args.obs) = "zero" -> Finish(Return(Fin(0), 0))
         [] OTHER -> pc' = "s_fmin" /\ UNCHANGED <<result, err>>
    /\ UNCHANGED <<uvars, gvars, table, curve, op, args, loc, cnt>>

\* f_min = objective(kb_min)
SolveFMin ==
    /\ pc = "s_fmin"
    /\ LET r == objective(args.e, args.obs, args.kb_min)
       IN  /\ cnt' = [cnt EXCEPT !.objs = @ + 1, !.quads = @ + r.quads,
                                 !.unconv = @ + r.unconv]
           /\ IF r.err # "none"
                THEN Finish(r) /\ UNCHANGED loc
                ELSE /\ loc' = [loc EXCEPT !.f_min = r.val]
                     /\ pc' = "s_fmax"
                     /\ UNCHANGED <<result, err>>
    /\ UNCHANGED <<uvars, gvars, table, curve, op, args>>

\* f_max = objective(kb_max)
SolveFMax ==
    /\ pc = "s_fmax"
    /\ LET r == objective(args.e, args.obs, loc.kb_max)
       IN  /\ cnt' = [cnt EXCEPT !.objs = @ + 1, !.quads = @ + r.quads,
                                 !.unconv = @ + r.unconv]
           /\ IF r.err # "none"
                THEN Finish(r) /\ UNCHANGED loc
                ELSE /\ loc' = [loc EXCEPT !.f_max = r.val]
                     /\ pc' = "s_sign"
                     /\ UNCHANGED <<result, err>>
    /\ UNCHANGED <<uvars, gvars, table, curve, op, args>>

\* mutant: the range is extended on the undershoot side as well
bracket_case_symmetric(f_min, f_max) ==
    IF ~ProdGtZero(f_min, f_max) THEN "search" ELSE "widen"

\* the test of the endpoint values: "search" unless f_min * f_max > 0, and
\* then "widen" if f_max > 0, otherwise "fail"
bracket_case(f_min, f_max) ==
    IF ~ProdGtZero(f_min, f_max) THEN "search"
    ELSE IF GtZero(f_max) THEN "widen"
    ELSE "fail"

\* the upper bound after "try extending the range"
widened_kb_max(kb_max) == KbWiden

\* f_min * f_max > 0 and f_max > 0: kb_max = 2.0 and the objective is evaluated
\* again; still positive raises, otherwise the root search follows
SolveWiden ==
    /\ pc = "s_sign"
    /\ bracket_case(loc.f_min, loc.f_max) = "widen"
    /\ LET k == widened_kb_max(loc.kb_max)
           r == objective(args.e, args.obs, k)
       IN  /\ cnt' = [cnt EXCEPT !.objs = @ + 1, !.quads = @ + r.quads,
                                 !.unconv = @ + r.unconv, !.widens = @ + 1]
           /\ loc' = [loc EXCEPT !.kb_max = k, !.f_max = r.val]
           /\ IF GtZero(r.val)
                THEN Finish(Raise("NoSolutionInRange", 0))
                ELSE pc' = "s_brent" /\ UNCHANGED <<result, err>>
    /\ UNCHANGED <<uvars, gvars, table, curve, op, args>>

\* f_min * f_max > 0 and f_max <= 0: raises at once
SolveUndershoot ==
    /\ pc = "s_sign"
    /\ bracket_case(loc.f_min, loc.f_max) = "fail"
    /\ Finish(Raise("NoSolutionInRange", 0))
    /\ UNCHANGED <<uvars, gvars, table, curve, op, args, loc, cnt>>

\* not f_min * f_max > 0: straight to the root search
SolveBracketed ==
    /\ pc = "s_sign"
    /\ bracket_case(loc.f_min, loc.f_max) = "search"
    /\ pc' = "s_brent"
    /\ UNCHANGED <<uvars, gvars, table, curve, op, args, loc, cnt, result, err>>

----------------------------------------------------------------------------
(* Root search: brentq(objective, kb_min, kb_max, xtol, rtol, maxiter),     *)
(* modelled as bisection on the kB grid.                                    *)

\* how brentq starts on values fa = f(a), fb = f(b): it returns an endpoint
\* where f is 0, rejects values of the same sign, and iterates otherwise;
\* on a NaN value its behaviour depends on the library version
brentq_start(a, b, fa, fb) ==
    IF IsNaN(fa) \/ IsNaN(fb)
       THEN {[kind |-> "raise", val |-> 0], [kind |-> "return", val |-> a],
             [kind |-> "return", val |-> b]}
    ELSE IF fa.val = 0 THEN {[kind |-> "return", val |-> a]}
    ELSE IF fb.val = 0 THEN {[kind |-> "return", val |-> b]}
    ELSE IF ProdGtZero(fa, fb) THEN {[kind |-> "raise", val |-> 0]}
    ELSE {[kind |-> "iterate", val |-> 0]}

\* brentq is entered: it evaluates the objective at both ends of the bracket
BrentStart ==
    /\ pc = "s_brent"
    /\ LET a == args.kb_min
           b == loc.kb_max
           ra == objective(args.e, args.obs, a)
           rb == objective(args.e, args.obs, b)
       IN  /\ cnt' = [cnt EXCEPT !.objs = @ + 2, !.quads = @ + ra.quads + rb.quads,
                                 !.unconv = @ + ra.unconv + rb.unconv,
                                 !.brents = @ + 1]
           /\ loc' = [loc EXCEPT !.a = a, !.b = b, !.fa = ra.val, !.fb = rb.val]
           /\ \E o \in brentq_start(a, b, ra.val, rb.val) :
                 CASE o.kind = "raise" -> Finish(Raise("RootFindingFailure", 0))
                   [] o.kind = "return" -> Finish(Return(Fin(o.val), 0))
                   [] OTHER -> pc' = "s_iter" /\ UNCHANGED <<result, err>>
    /\ UNCHANGED <<uvars, gvars, table, curve, op, args>>

\* the end of the bracket where |f| is smaller
best_end(l) == IF Abs(l.fa.val) < Abs(l.fb.val) THEN l.a ELSE l.b

\* mutant: m replaces the wrong end of the bracket
brent_update_wrong_end(l, m, fm) ==
    IF (fm.val > 0) = (l.fa.val > 0)
       THEN [l EXCEPT !.b = m, !.fb = fm, !.iter = @ + 1]
       ELSE [l EXCEPT !.a = m, !.fa = fm, !.iter = @ + 1]

\* the bracket after f(m) = fm: m replaces the end whose value has fm's sign
brent_update(l, m, fm) ==
    IF (fm.val > 0) = (l.fa.val > 0)
       THEN [l EXCEPT !.a = m, !.fa = fm, !.iter = @ + 1]
       ELSE [l EXCEPT !.b = m, !.fb = fm, !.iter = @ + 1]

\* one iteration: the bracket is halved, keeping the sign change inside
BrentStep ==
    /\ pc = "s_iter"
    /\ IF loc.iter >= MaxIter
          THEN Finish(Raise("RootFindingFailure", 0)) /\ UNCHANGED <<loc, cnt>>
       ELSE IF Abs(loc.b - loc.a) <= 1
          THEN Finish(Return(Fin(best_end(loc)), 0)) /\ UNCHANGED <<loc, cnt>>
       ELSE LET m == (loc.a + loc.b) \div 2
                r == objective(args.e, args.obs, m)
            IN  /\ cnt' = [cnt EXCEPT !.objs = @ + 1, !.quads = @ + r.quads,
                                 !.unconv = @ + r.unconv]
                /\ IF r.err # "none" \/ IsNaN(r.val)
                      THEN Finish(Raise("RootFindingFailure", 0)) /\ UNCHANGED loc
                   ELSE IF r.val.val = 0
                      THEN Finish(Return(Fin(m), 0)) /\ UNCHANGED loc
                   ELSE /\ loc' = brent_update(loc, m, r.val)
                        /\ UNCHANGED <<pc, result, err>>
    /\ UNCHANGED <<uvars, gvars, table, curve, op, args>>

Next ==
    \/ Construct
    \/ CallGetDedx
    \/ CallEnergyRange
    \/ ReturnToCaller
    \/ CallVisibleEnergy
    \/ CallQuenchingFactor
    \/ CallSolveKb
    \/ SolvePre
    \/ SolveFMin
    \/ SolveFMax
    \/ SolveWiden
    \/ SolveUndershoot
    \/ SolveBracketed
    \/ BrentStart
    \/ BrentStep

Spec == Init /\ [][Next]_vars

----------------------------------------------------------------------------
(* Text parsing: parse_srim_text, _convert_to_mev, validate_dataframe.      *)
(* A line is known by what the parser asks of it: its text for the header,  *)
(* separator and marker tests, and for a row its number, unit and value     *)
(* fields.  Positions are 1-based; data_end_idx is the position of the     *)
(* first line past the section.  An energy is the fraction n / d MeV.       *)

MaxLines == 4         \* lines of an uploaded text

Line(t, n, u, v) == [txt |-> t, num |-> n, unit |-> u, val |-> v]

HeaderLine == Line("Energy  dE/dx Elec.", "", "", "")
SepLine == Line("-----------", "", "", "")
BlankLine == Line("", "", "", "")
MultiplyLine == Line("Multiply Stopping by", "", "", "")
UnitsLine == Line("for Stopping Units", "", "", "")

Lines == {HeaderLine, SepLine, BlankLine, MultiplyLine, UnitsLine,
          Line("row", "2.0", "MeV", "5.0"),
          Line("row", "500", "keV", "-3.0"),
          Line("row", "3", "TeV", "9.0"),
          Line("row", "1.2.3", "GeV", "4.0"),
          Line("row", "10", "eV", "")}

Texts == UNION {[1..n -> Lines] : n \in 1..MaxLines}

\* 'Energy' in line and ('Elec' in line or 'Electronic' in line)
is_header(l) == l = HeaderLine

\* not line.strip()
is_blank(l) == l = BlankLine

\* line.strip().startswith('-') or line.strip().startswith('=')
starts_sep(l) == l = SepLine

\* stripped.startswith('---'), stripped.startswith('===')
starts_sep3(l) == l = SepLine

\* stripped.startswith('Multiply')
is_multiply(l) == l = MultiplyLine

\* 'Stopping' in stripped and 'Units' in stripped
is_units(l) == l = UnitsLine

\* energy_pattern ^\s*[\d.]+\s*[kMGTe]?eV: digits and dots, then a unit
energy_pattern(l) == l.txt = "row"

\* line_pattern ^\s*([\d.]+)\s*([kMGT]?eV)\s+([\d.E+-]+)\s*: the same and a
\* value field after the unit
line_pattern(l) == l.txt = "row" /\ l.val # ""

\* float(s) on the field strings of the rows; a string outside the table
\* raises ValueError
FloatTable == [s \in {"2.0", "500", "3", "10", "5.0", "-3.0", "9.0", "4.0"} |->
                 CASE s = "2.0" -> 2 [] s = "500" -> 500 [] s = "3" -> 3
                   [] s = "10" -> 10 [] s = "5.0" -> 5 [] s = "-3.0" -> -3
                   [] s = "9.0" -> 9 [] s = "4.0" -> 4]

is_float(s) == s \in DOMAIN FloatTable

\* unit.lower()
lower(u) == CASE u = "eV" -> "ev" [] u = "keV" -> "kev" [] u = "MeV" -> "mev"
              [] u = "GeV" -> "gev" [] u = "TeV" -> "tev" [] OTHER -> u

\* the conversion table of _convert_to_mev, each factor as the fraction n / d
conversion == [u \in {"ev", "kev", "mev", "gev", "tev"} |->
                 CASE u = "ev" -> [n |-> 1, d |-> 1000000]
                   [] u = "kev" -> [n |-> 1, d |-> 1000]
                   [] u = "mev" -> [n |-> 1, d |-> 1]
                   [] u = "gev" -> [n |-> 1000, d |-> 1]
                   [] u = "tev" -> [n |-> 1000000, d |-> 1]]

\* mutant: TeV is converted by the factor of keV
convert_to_mev_tev_as_kev(value, unit) ==
    LET u == IF lower(unit) = "tev" THEN "kev" ELSE lower(unit)
    IN  [n |-> value * conversion[u].n, d |-> conversion[u].d]

\* _convert_to_mev(value, unit): value * conversion[unit.lower()]
convert_to_mev(value, unit) ==
    [n |-> value * conversion[lower(unit)].n, d |-> conversion[lower(unit)].d]

\* a <= b between two energies that are not negative
EnergyLe(a, b) ==
    IF a.d = b.d THEN a.n <= b.n
    ELSE IF a.n \div a.d # b.n \div b.d THEN a.n \div a.d < b.n \div b.d
    ELSE (a.n % a.d) * b.d <= (b.n % b.d) * a.d

\* content.strip().split('\n'): blank lines at either end are gone, and a
\* text of blank lines only is one empty line
strip_content(c) ==
    LET kept == {i \in 1..Len(c) : ~is_blank(c[i])}
    IN  IF kept = {} THEN <<BlankLine>>
        ELSE LET lo == CHOOSE i \in kept : \A j \in kept : i <= j
                 hi == CHOOSE i \in kept : \A j \in kept : j <= i
             IN  SubSeq(c, lo, hi)

\* the first position in S, 0 (None) if there is none
FirstOf(S) == IF S = {} THEN 0 ELSE CHOOSE i \in S : \A j \in S : i <= j

\* the header search: the line after the first separator that follows the
\* first header line, or the line after the header if no separator follows;
\* 0 if there is no header line
header_start(l) ==
    LET h == FirstOf({i \in 1..Len(l) : is_header(l[i])})
        j == FirstOf({i \in (h + 1)..Len(l) : starts_sep(l[i])})
    IN  IF h = 0 THEN 0
        ELSE IF j = 0 THEN h + 1
        ELSE j + 1

\* mutant: a blank line does not end the section
ends_section_not_on_blank(l, i, start) ==
    \/ starts_sep3(l[i]) /\ i > start
    \/ is_multiply(l[i])
    \/ is_units(l[i])

\* line i ends a section that starts at start, header found
ends_section(l, i, start) ==
    \/ is_blank(l[i])
    \/ starts_sep3(l[i]) /\ i > start
    \/ is_multiply(l[i])
    \/ is_units(l[i])

\* the end search after a header was found; 0 if no line ends the section
header_end(l, start) == FirstOf({i \in start..Len(l) : ends_section(l, i, start)})

\* without a header: the first line that matches energy_pattern
fallback_start(l) == FirstOf({i \in 1..Len(l) : energy_pattern(l[i])})

\* without a header: the first later line that is not blank, does not match
\* and starts with '-' or '='; other lines that do not match are passed over
fallback_end(l, start) ==
    FirstOf({i \in (start + 1)..Len(l) :
                ~energy_pattern(l[i]) /\ ~is_blank(l[i]) /\ starts_sep(l[i])})

\* data_start_idx and data_end_idx as the two searches leave them
locate(l) ==
    LET hs == header_start(l)
        s  == IF hs # 0 THEN hs ELSE fallback_start(l)
        e  == IF s = 0 THEN 0
              ELSE IF hs # 0 THEN header_end(l, s)
              ELSE fallback_end(l, s)
    IN  [start |-> s, end |-> IF e = 0 THEN Len(l) + 1 ELSE e]

\* the lines of the section that match line_pattern, in order
matched(l, start, end) ==
    SelectSeq(SubSeq(l, start, end - 1), line_pattern)

\* the pair a matched line gives
pair_of(m) == <<convert_to_mev(FloatTable[m.num], m.unit), FloatTable[m.val]>>

\* s with row r put at every place that keeps the energies ascending
insert_sorted(s, r) ==
    {SubSeq(s, 1, k) \o <<r>> \o SubSeq(s, k + 1, Len(s)) :
        k \in {k \in 0..Len(s) :
                  /\ \A i \in 1..k : EnergyLe(s[i][1], r[1])
                  /\ \A i \in (k + 1)..Len(s) : EnergyLe(r[1], s[i][1])}}

\* df.sort_values('Energy_MeV') on parsed rows: every ascending order
RECURSIVE sort_rows(_)
sort_rows(t) ==
    IF t = <<>> THEN {<<>>}
    ELSE UNION {insert_sorted(s, t[Len(t)]) : s \in sort_rows(SubSeq(t, 1, Len(t) - 1))}

BothCols == {"Energy_MeV", "dE_dx"}

\* parse_srim_text(content): the error raised, or the tables it may return
parse_srim_text(c) ==
    LET l == strip_content(c)
        p == locate(l)
        m == matched(l, p.start, p.end)
    IN  IF p.start = 0
           THEN [err |-> "ParseError: no data section", start |-> 0, end |-> 0,
                 dfs |-> {}]
        ELSE IF \E i \in 1..Len(m) : ~is_float(m[i].num) \/ ~is_float(m[i].val)
           THEN [err |-> "ValueError: float", start |-> p.start, end |-> p.end,
                 dfs |-> {}]
        ELSE IF Len(m) = 0
           THEN [err |-> "ParseError: no data points", start |-> p.start,
                 end |-> p.end, dfs |-> {}]
        ELSE [err |-> "none", start |-> p.start, end |-> p.end,
              dfs |-> {[cols |-> BothCols, rows |-> s] :
                          s \in sort_rows([i \in 1..Len(m) |-> pair_of(m[i])])}]

\* mutant: the stopping-power column is not checked
validate_dataframe_energy_only(f) ==
    IF ~(BothCols \subseteq f.cols) THEN "ValidationError: columns"
    ELSE IF Len(f.rows) = 0 THEN "ValidationError: empty"
    ELSE IF \E i \in 1..Len(f.rows) : f.rows[i][1].n < 0
       THEN "ValidationError: energy"
    ELSE "none"

\* validate_dataframe(df): the error raised, "none" when it returns True
validate_dataframe(f) ==
    IF ~(BothCols \subseteq f.cols) THEN "ValidationError: columns"
    ELSE IF Len(f.rows) = 0 THEN "ValidationError: empty"
    ELSE IF \E i \in 1..Len(f.rows) : f.rows[i][1].n < 0
       THEN "ValidationError: energy"
    ELSE IF \E i \in 1..Len(f.rows) : f.rows[i][2] < 0
       THEN "ValidationError: dedx"
    ELSE "none"

----------------------------------------------------------------------------
(* The upload path of the application, and validate_dataframe called on a  *)
(* table of its own.                                                        *)

\* tables handed to validate_dataframe directly
FrameRows == {<<[n |-> e, d |-> 1], v>> : e \in {-1, 0, 2}, v \in {-3, 0, 5}}

Frames == {[cols |-> c, rows |-> r] :
              c \in SUBSET BothCols,
              r \in UNION {[1..n -> FrameRows] : n \in 0..MaxRows}}

InitUpload ==
    /\ BirksOff
    /\ GcrOff
    /\ \/ upc = "uploaded" /\ content \in Texts /\ df = NoDf
       \/ upc = "frame" /\ content = <<>> /\ df \in Frames
    /\ data_start_idx = 0
    /\ data_end_idx = 0
    /\ uerr = "none"

\* df = parse_srim_text(content); an exception stops the script
ParseSrimText ==
    /\ upc = "uploaded"
    /\ LET r == parse_srim_text(content)
       IN  /\ data_start_idx' = r.start
           /\ data_end_idx' = r.end
           /\ uerr' = r.err
           /\ IF r.err = "none"
                 THEN upc' = "parsed" /\ df' \in r.dfs
                 ELSE upc' = "stopped" /\ df' = df
    /\ UNCHANGED <<bvars, gvars, content>>

\* validate_dataframe(df) in the upload path; an exception stops the script
UploadValidate ==
    /\ upc = "parsed"
    /\ uerr' = validate_dataframe(df)
    /\ upc' = IF validate_dataframe(df) = "none" THEN "validated" ELSE "stopped"
    /\ UNCHANGED <<bvars, gvars, content, data_start_idx, data_end_idx, df>>

\* calculator = BirksCalculator(df)
UploadConstruct ==
    /\ upc = "validated"
    /\ upc' = "constructed"
    /\ UNCHANGED <<bvars, gvars, content, data_start_idx, data_end_idx, df, uerr>>

\* validate_dataframe(df) called on a table
CallValidate ==
    /\ upc = "frame"
    /\ uerr' = validate_dataframe(df)
    /\ upc' = IF validate_dataframe(df) = "none" THEN "frame_valid" ELSE "frame_invalid"
    /\ UNCHANGED <<bvars, gvars, content, data_start_idx, data_end_idx, df>>

NextUpload ==
    \/ ParseSrimText
    \/ UploadValidate
    \/ UploadConstruct
    \/ CallValidate

SpecUpload == InitUpload /\ [][NextUpload]_vars

----------------------------------------------------------------------------
(* The dashboard: the two stores of the session state, the multiselect and  *)
(* the histogram.  A dataset is known by its number, the count of datasets  *)
(* generated up to it.                                                      *)

MaxStore == 3         \* datasets generated in a session

\* the label of a dataset is made from the parameters it was generated with
Labels == {"a=1, b=1, c=1", "a=2, b=1, c=1", "a=2, b=2, c=1"}

\* selected_data: the datasets whose label is among the selected labels, in
\* store order
selected_data(data, labels, selected) ==
    LET idx == {i \in 1..Len(labels) : \E j \in 1..Len(selected) : selected[j] = labels[i]}
    IN  [k \in 1..Cardinality(idx) |->
            data[CHOOSE i \in idx : Cardinality({j \in idx : j <= i}) = k]]

\* plot_gen: for dataset, label in zip(data, labels)
plot_gen(data, labels) ==
    [k \in 1..Min2(Len(data), Len(labels)) |-> <<data[k], labels[k]>>]

\* what the multiselect can return: the labels of any choice of options, in
\* the order they were picked
Selections(labels) ==
    UNION {{[k \in 1..n |-> labels[p[k]]] :
               p \in {q \in [1..n -> 1..Len(labels)] :
                         \A i, j \in 1..n : i # j => q[i] # q[j]}} :
           n \in 0..Len(labels)}

InitGcr ==
    /\ BirksOff
    /\ UploadOff
    /\ data_store = <<>>
    /\ labels_store = <<>>
    /\ selected_labels = <<>>
    /\ plotted = <<>>

\* the button 'Generate and Add Data': both stores are appended to, and the
\* rerun shows the multiselect at its default, every label
GenerateAndAdd ==
    /\ Len(data_store) < MaxStore
    /\ \E label \in Labels :
          LET data == Len(data_store) + 1
              ds == Append(data_store, data)
              ls == Append(labels_store, label)
          IN  /\ data_store' = ds
              /\ labels_store' = ls
              /\ selected_labels' = ls
              /\ plotted' = plot_gen(selected_data(ds, ls, ls), ls)
    /\ UNCHANGED <<bvars, uvars>>

\* the user changes the selection and the script reruns
SelectDatasets ==
    /\ data_store # <<>>
    /\ \E sel \in Selections(labels_store) :
          /\ selected_labels' = sel
          /\ plotted' = plot_gen(selected_data(data_store, labels_store, sel), sel)
    /\ UNCHANGED <<bvars, uvars, data_store, labels_store>>

NextGcr ==
    \/ GenerateAndAdd
    \/ SelectDatasets

SpecGcr == InitGcr /\ [][NextGcr]_vars

----------------------------------------------------------------------------
(* Claims *)

Done(o) == pc = "done" /\ op = o

\* a <= b as a float comparison between results: false when either is NaN
FloatLe(a, b) == IsFin(a) /\ IsFin(b) /\ a.val <= b.val

\* C1: for every curve and every initialEnergy > 0, visibleEnergy(initialEnergy, 0)
\* returns initialEnergy
C1_ZeroQuenchingIsIdentity ==
    (Done("visible_energy") /\ args.e > 0 /\ args.kb = 0)
        => (err = "none" /\ result = Fin(args.e))

\* C2: for every initialEnergy > 0 and kB2 > kB1 >= 0, quenchingFactor at kB2 is
\* at most quenchingFactor at kB1 (stated for the results that are numbers)
C2_QuenchingFactorMonotone ==
    (Done("quenching_factor") /\ args.e > 0 /\ args.kb >= 0 /\ IsFin(result))
        => \A kb1 \in KbInputs :
              (0 <= kb1 /\ kb1 < args.kb
                 /\ IsFin(calculate_quenching_factor(args.e, kb1).val))
                  => FloatLe(result, calculate_quenching_factor(args.e, kb1).val)

\* C4: quenchingFactor lies in [0, 1] for every initialEnergy and every kB >= 0
\* (stated for the results that are numbers)
C4_QuenchingFactorInUnitInterval ==
    (Done("quenching_factor") /\ args.kb >= 0 /\ IsFin(result))
        => (0 <= result.val /\ result.val <= QScale)

DefaultBracket == args.kb_min = 0 /\ args.kb_max = KbDefaultMax

\* the visible energy of the forward calculation, as a number
Visible(e, kb) == calculate_visible_energy(e, kb).val

C5_NonPositiveEnergyGivesZero ==
    ((Done("visible_energy") \/ Done("quenching_factor")) /\ args.e <= 0)
        => (err = "none" /\ result = Fin(0) /\ cnt.quads = 0)

\* initialEnergy <= 0 with a negative kB returns 0
C5_Witness ==
    /\ Done("visible_energy") /\ args.e <= 0 /\ args.kb < 0
    /\ err = "none" /\ result = Fin(0)

\* C6 as stated: visibleEnergy fails with InvalidArgument whenever kB < 0, for
\* every initialEnergy
C6_NegativeKbFailsEveryEnergy ==
    (Done("visible_energy") /\ args.kb < 0)
        => (err = "InvalidArgument" /\ result = NoResult)

\* C6 amended: visibleEnergy fails with InvalidArgument whenever kB < 0 and
\* initialEnergy > 0, returns no number and runs no quadrature
C6_NegativeKbFails ==
    (Done("visible_energy") /\ args.kb < 0 /\ args.e > 0)
        => (err = "InvalidArgument" /\ result = NoResult /\ cnt.quads = 0)

\* a negative kB with a positive initialEnergy has been rejected
C6_Witness ==
    /\ Done("visible_energy") /\ args.kb < 0 /\ args.e > 0
    /\ err = "InvalidArgument"

BadSolveArgs == args.e <= 0 \/ args.obs <= 0 \/ args.obs > args.e

\* C7: solveKB fails with InvalidArgument when initialEnergy <= 0, when
\* observedEnergy <= 0 and when observedEnergy > initialEnergy, before the
\* objective is evaluated, and returns no kB
C7_SolveRejectsBadArguments ==
    (op = "solve_kb" /\ BadSolveArgs)
        => /\ pc \in {"s_pre", "done"}
           /\ cnt = ZeroCnt
           /\ pc = "done" => (err = "InvalidArgument" /\ result = NoResult)

\* observedEnergy > initialEnergy > 0 has been rejected
C7_Witness ==
    /\ Done("solve_kb") /\ args.e > 0 /\ args.obs > args.e
    /\ err = "InvalidArgument"

\* C8 as stated: for initialEnergy > 0 and observedEnergy within 1e-9 of it on
\* either side, solveKB returns 0 without evaluating the objective (stated for
\* the observed energies that are positive)
C8_NearEqualEitherSide ==
    (Done("solve_kb") /\ args.e > 0 /\ args.obs > 0
       /\ Abs(args.obs - args.e) < EqTol)
        => (err = "none" /\ result = Fin(0) /\ cnt = ZeroCnt)

\* C8 amended: the same for 0 < observedEnergy <= initialEnergy, for any bracket
C8_NearEqualFromBelow ==
    (op = "solve_kb" /\ 0 < args.obs /\ args.obs <= args.e
       /\ args.e - args.obs < EqTol)
        => /\ pc \in {"s_pre", "done"}
           /\ cnt = ZeroCnt
           /\ pc = "done" => (err = "none" /\ result = Fin(0))

\* observedEnergy just below initialEnergy, with a bracket other than the default
C8_Witness ==
    /\ Done("solve_kb") /\ args.obs = args.e - 1 /\ args.obs > 0
    /\ args.kb_min # 0 /\ args.kb_max # KbDefaultMax
    /\ err = "none" /\ result = Fin(0)

\* C9: when the objective is positive at both ends the upper bound is widened
\* once to 2.0 and the objective evaluated there; still positive fails with
\* NoSolutionInRange, otherwise the root search runs on [kBMin, 2.0]; the bound
\* after widening is not below the caller's kBMax
C9_WidenedOnceNotBelowCaller ==
    (op = "solve_kb" /\ cnt.widens > 0)
        => /\ cnt.widens = 1
           /\ cnt.objs >= 3
           /\ loc.kb_max = KbWiden
           /\ GtZero(loc.f_max) => (pc = "done" /\ err = "NoSolutionInRange")
           /\ cnt.brents > 0 => (loc.a = args.kb_min \/ loc.iter > 0)
           /\ loc.kb_max >= args.kb_max

BothNegative == /\ IsFin(loc.f_min) /\ loc.f_min.val < 0
                /\ IsFin(loc.f_max) /\ loc.f_max.val < 0

\* C10: when the objective is negative at both ends, solveKB fails with
\* NoSolutionInRange at once: no widening, no third evaluation, no root search
C10_UndershootFailsAtOnce ==
    (op = "solve_kb" /\ BothNegative)
        => /\ pc \in {"s_sign", "done"}
           /\ cnt.widens = 0 /\ cnt.objs = 2 /\ cnt.brents = 0
           /\ loc.kb_max = args.kb_max
           /\ pc = "done" => (err = "NoSolutionInRange" /\ result = NoResult)

\* the call has failed on two negative endpoint values
C10_Witness ==
    /\ Done("solve_kb") /\ BothNegative
    /\ err = "NoSolutionInRange"

\* the stored energies are at least two and strictly ascending: interpolation
\* divides by no zero width
DistinctEnergies ==
    /\ Len(energy) >= 2
    /\ \A i \in 1..(Len(energy) - 1) : energy[i] < energy[i + 1]

\* C11: a visible-energy call in which the quadrature did not converge ends
\* in IntegrationFailure and returns no value, and a solveKB call in which a
\* quadrature did not converge fails and returns no kB; stated for curves of
\* distinct energies
C11_UnconvergedQuadratureFails ==
    DistinctEnergies
        => /\ (Done("visible_energy") /\ cnt.unconv > 0)
                  => (err = "IntegrationFailure" /\ result = NoResult)
           /\ (Done("solve_kb") /\ cnt.unconv > 0)
                  => (err # "none" /\ result = NoResult)

\* the stored curve as rows
StoredRows == [i \in 1..Len(energy) |-> <<energy[i], dedx[i]>>]

\* how often row r occurs in the sequence of rows t
Count(t, r) == Cardinality({i \in 1..Len(t) : t[i] = r})

\* the smallest energy of the caller's table
MinSupplied == CHOOSE m \in {table[i][1] : i \in 1..Len(table)} :
                  \A i \in 1..Len(table) : m <= table[i][1]

OriginAdded == Len(energy) = Len(table) + 1 /\ StoredRows[1] = <<0, 0>>

Constructed == pc \notin {"new", "off"}

\* C12: after construction from a table in any row order the stored samples
\* ascend in energy, the row (0, 0) was prepended exactly when the smallest
\* supplied energy is strictly positive, every supplied row is kept as often
\* as it was supplied, the range is (first, last) stored energy, and
\* minEnergy is 0 since no supplied energy is negative
C12_ConstructionNormalForm ==
    Constructed
        => /\ IsSorted(StoredRows)
           /\ OriginAdded <=> MinSupplied > 0
           /\ ~OriginAdded => Len(energy) = Len(table)
           /\ \A r \in Rows \cup {<<0, 0>>} :
                 Count(StoredRows, r) =
                    Count(table, r) + (IF OriginAdded /\ r = <<0, 0>> THEN 1 ELSE 0)
           /\ get_energy_range = <<energy[1], energy[Len(energy)]>>
           /\ min_energy = 0

\* a table given in descending order, smallest energy positive, is stored
\* ascending behind the origin
C12_Witness ==
    /\ pc = "idle"
    /\ table = <<(<<400, 0>>), (<<200, 10>>)>>
    /\ StoredRows = <<(<<0, 0>>), (<<200, 10>>), (<<400, 0>>)>>

\* C13: stoppingPower returns a finite value at every energy for every table
\* of the input contract, and never fails
C13_StoppingPowerTotal ==
    Done("get_dedx") => (err = "none" /\ IsFin(result))

ProdLeZero(a, b) ==
    /\ ~IsNaN(a) /\ ~IsNaN(b)
    /\ IF IsFin(a) /\ IsFin(b) THEN a.val * b.val <= 0
       ELSE IF IsFin(a) THEN a.val # 0 /\ (a.val > 0) # (b.cls = "pinf")
       ELSE IF IsFin(b) THEN b.val # 0 /\ (b.val > 0) # (a.cls = "pinf")
       ELSE a.cls # b.cls

\* C18: whenever solveKB has invoked the root finder, the objective values at
\* the two endpoints passed to it, kBMin and the upper bound as it stands after
\* any widening, have a product <= 0, and a kB returned by the root finder
\* lies between those endpoints
C18_BracketHasSignChange ==
    (op = "solve_kb" /\ cnt.brents > 0)
        => /\ ProdLeZero(loc.f_min, loc.f_max)
           /\ (pc = "done" /\ err = "none")
                 => /\ result.val >= Min2(args.kb_min, loc.kb_max)
                    /\ result.val <= Max2(args.kb_min, loc.kb_max)

----------------------------------------------------------------------------
(* Claims about the text parser and the upload path *)

\* the lines parse_srim_text works on
lines == strip_content(content)

HasHeader == \E i \in 1..Len(lines) : is_header(lines[i])

ParseErrors == {"ParseError: no data section", "ParseError: no data points",
                "ValueError: float"}

\* parse_srim_text has failed / has returned a table
ParseFailed == upc = "stopped" /\ uerr \in ParseErrors
ParseReturned == \/ upc \in {"parsed", "validated", "constructed"}
                 \/ upc = "stopped" /\ uerr \notin ParseErrors

\* a line of the form <number> <unit> <number...>, unit one of the five
IsDataRow(l) ==
    /\ l.txt = "row"
    /\ l.unit \in {"eV", "keV", "MeV", "GeV", "TeV"}
    /\ is_float(l.num) /\ is_float(l.val)

\* the factor that takes an energy in unit u to MeV, as a fraction
FactorToMeV(u) ==
    CASE u = "eV" -> <<1, 1000000>> [] u = "keV" -> <<1, 1000>> [] u = "MeV" -> <<1, 1>>
      [] u = "GeV" -> <<1000, 1>> [] u = "TeV" -> <<1000000, 1>>

\* the pair a data row stands for
PairOfRow(l) ==
    <<[n |-> FloatTable[l.num] * FactorToMeV(l.unit)[1], d |-> FactorToMeV(l.unit)[2]],
      FloatTable[l.val]>>

\* the first line at or after the start of the data section that is blank, a
\* Multiply or Stopping-Units marker, or a separator after the start; 0 if none
FirstTerminator ==
    FirstOf({i \in data_start_idx..Len(lines) :
                \/ lines[i] = BlankLine
                \/ lines[i] \in {MultiplyLine, UnitsLine}
                \/ lines[i] = SepLine /\ i > data_start_idx})

\* data rows after the first terminator
RowsAfterTerminator ==
    {i \in (FirstTerminator + 1)..Len(lines) : FirstTerminator # 0 /\ IsDataRow(lines[i])}

\* data rows of the section before the first terminator
RowsBeforeTerminator ==
    {i \in data_start_idx..Len(lines) :
        /\ IsDataRow(lines[i])
        /\ FirstTerminator # 0 => i < FirstTerminator}

\* every returned pair is the pair of a data row before the first terminator,
\* as often as it is returned
OnlyRowsBeforeTerminator ==
    \A i \in 1..Len(df.rows) :
        Cardinality({j \in 1..Len(df.rows) : df.rows[j] = df.rows[i]})
           <= Cardinality({j \in RowsBeforeTerminator : PairOfRow(lines[j]) = df.rows[i]})

NoSection == ~HasHeader /\ \A i \in 1..Len(lines) : lines[i].txt # "row"

\* the located section
Section == {i \in 1..Len(lines) : data_start_idx <= i /\ i < data_end_idx}

\* the data rows of the located section
SectionRows == {i \in Section : IsDataRow(lines[i])}

\* a line of the section has the shape of a row, but a number field of it
\* is not a number
BadNumberRow ==
    \E i \in Section :
        /\ lines[i].txt = "row" /\ lines[i].val # ""
        /\ ~(is_float(lines[i].num) /\ is_float(lines[i].val))

\* the table returned has a row, its rows ascend in energy, and they are the
\* pairs of the data rows of the section, each as often as its rows occur
RowsComeFromSection ==
    /\ Len(df.rows) >= 1
    /\ Len(df.rows) = Cardinality(SectionRows)
    /\ \A i \in 1..(Len(df.rows) - 1) : EnergyLe(df.rows[i][1], df.rows[i + 1][1])
    /\ \A i \in 1..Len(df.rows) :
          Cardinality({j \in 1..Len(df.rows) : df.rows[j] = df.rows[i]})
             = Cardinality({j \in SectionRows : PairOfRow(lines[j]) = df.rows[i]})

\* C16: parse_srim_text fails exactly when no data section can be located or
\* the located section yields no data row; a table it returns has at least
\* one row, every row from a line <number> <unit> <number...> with the energy
\* converted to MeV by the factor of its unit
C16_FailsExactlyWithoutRows ==
    /\ ParseFailed => (NoSection \/ SectionRows = {})
    /\ ParseReturned => (~NoSection /\ SectionRows # {} /\ RowsComeFromSection)

\* C16, amended: it also fails when a line of the section has the shape of a
\* row but a number field that float() rejects
C16_FailsWithoutRowsOrOnBadNumber ==
    /\ ParseFailed => (NoSection \/ SectionRows = {} \/ BadNumberRow)
    /\ ParseReturned => (~NoSection /\ SectionRows # {} /\ ~BadNumberRow
                           /\ RowsComeFromSection)

\* a table of rows in three units was returned, out of the order of the text
C16_Witness ==
    /\ ParseReturned
    /\ Len(df.rows) = 3
    /\ df.rows[1][1].d = 1000 /\ df.rows[2][1].d = 1 /\ df.rows[3][1].n = 3000000
    /\ lines[1].unit = "TeV"

ValidationErrors == {"ValidationError: columns", "ValidationError: empty",
                     "ValidationError: energy", "ValidationError: dedx"}

\* both columns, at least one row, no negative energy or stopping power
ValidFrame(f) ==
    /\ "Energy_MeV" \in f.cols /\ "dE_dx" \in f.cols
    /\ Len(f.rows) >= 1
    /\ \A i \in 1..Len(f.rows) : f.rows[i][1].n >= 0 /\ f.rows[i][2] >= 0

ValidationPassed == upc \in {"frame_valid", "validated", "constructed"}
ValidationFailed == \/ upc = "frame_invalid"
                    \/ upc = "stopped" /\ uerr \notin ParseErrors

\* C17: validate_dataframe succeeds exactly on tables with both columns, at
\* least one row and no negative energy or stopping power, and fails with a
\* ValidationError on every other; in the upload path a calculator is built
\* only from a table that parsing returned and validation accepted
C17_ValidatesExactlyAndGuardsConstruction ==
    /\ ValidationPassed => (ValidFrame(df) /\ uerr = "none")
    /\ ValidationFailed => (~ValidFrame(df) /\ uerr \in ValidationErrors)
    /\ upc = "constructed"
          => /\ parse_srim_text(content).err = "none"
             /\ df \in parse_srim_text(content).dfs
             /\ validate_dataframe(df) = "none"
    /\ (ParseFailed \/ ValidationFailed) => ~(ENABLED NextUpload)

\* a calculator was built from an uploaded text of two rows
C17_Witness ==
    /\ upc = "constructed"
    /\ Len(df.rows) >= 2

----------------------------------------------------------------------------
(* Claims about the dashboard *)

\* C19: the two stores have the same length and hold the datasets in the order
\* they were generated, and every dataset drawn in the histogram carries the
\* label it was stored under
C19_StoresAlignedAndPlotPaired ==
    /\ Len(data_store) = Len(labels_store)
    /\ \A i \in 1..Len(data_store) : data_store[i] = i
    /\ \A k \in 1..Len(plotted) : labels_store[plotted[k][1]] = plotted[k][2]

====
